---- MODULE Spec2Model ----
(***************************************************************************)
(* One render of SCT.py, the Streamlit stock dashboard.  The script is a   *)
(* straight line of sections; `pc` is the section the render is about to   *)
(* run, `page` the elements it has put on the page so far.                 *)
(*                                                                         *)
(* Numbers with a fraction are kept as integers of a fixed unit: polarity  *)
(* and ratios in hundredths, returnOnEquity in ten-thousandths.            *)
(*                                                                         *)
(* Specifications:                                                         *)
(*   Spec         the render from the sidebar to the closing-price         *)
(*                validation (lines 23-71)                                 *)
(*   SpecSections lines 73-198 run from every state a passed validation    *)
(*                leaves                                                   *)
(*   SpecFund     the fundamentals section (lines 140-154) over every      *)
(*                `info` mapping                                           *)
(*   SpecInsight  the insights section (lines 156-175) over every RSI,     *)
(*                MACD and Signal column                                   *)
(*   SpecNews     the news block (lines 177-198) over every news list      *)
(***************************************************************************)
EXTENDS Integers, Sequences, FiniteSets, TLC

(* ------------------------------ bounds --------------------------------- *)
\* Most rows a price frame holds.
MaxBars == 2
\* Most headlines the news provider returns.
MaxNews == 6

(* -------------------------- program constants --------------------------- *)
RsiWindow == 14
Overbought == 70
Oversold == 30
\* 0.1 and -0.1, in hundredths
PosPolarity == 10
NegPolarity == -10
NewsLimit == 5

(* ------------------------------- values --------------------------------- *)
\* A cell of a column: a number, NaN, None, or a string (numeric or not).
Num(v) == [t |-> "num", v |-> v]
NaN == [t |-> "nan", v |-> 0]
None == [t |-> "none", v |-> 0]
NumStr(v) == [t |-> "numstr", v |-> v]
Junk == [t |-> "junk", v |-> 0]

\* An element the script puts on the page.
El(k, name, t) == [k |-> k, name |-> name, t |-> t]

Last(s) == s[Len(s)]

\* All sequences over S of length lo..hi.
SeqsOf(S, lo, hi) == UNION {[1..n -> S] : n \in lo..hi}

\* The elements of `s` of kind k, in page order.
OfKind(s, k) == SelectSeq(s, LAMBDA e : e.k = k)
Named(s, name) == SelectSeq(s, LAMBDA e : e.name = name)

(* ------------------------------- inputs --------------------------------- *)
Popular == {"None", "AAPL", "MSFT", "GOOGL", "TSLA", "INFY.NS", "TCS.NS"}
TextInputs == {"", "ibm", "IBM"}
IndicatorNames == {"SMA (20)", "EMA (20)", "RSI", "MACD"}

\* str.upper() on the text inputs of the model.
Upper(s) == IF s = "ibm" THEN "IBM" ELSE s

\* Columns of the frame yf.download returns after reset_index.
FullCols == {"Date", "Open", "High", "Low", "Close"}
NoCloseCols == {"Date", "Open", "High", "Low"}
CloseCells == {Num(10), NaN, NumStr(7), Junk}

\* What yf.download answers: it raises, or returns a frame.
Responses ==
  {[ok |-> FALSE, cols |-> {}, close |-> <<>>]}
  \cup {[ok |-> TRUE, cols |-> NoCloseCols, close |-> <<>>]}
  \cup {[ok |-> TRUE, cols |-> FullCols, close |-> c] :
          c \in SeqsOf(CloseCells, 0, MaxBars)}

EmptyFrame == [cols |-> {}, close |-> <<>>, RSI |-> <<>>, MACD |-> <<>>,
               Signal |-> <<>>]
Unset == [kind |-> "unset", vals |-> <<>>]
NoInfo == [ok |-> FALSE, m |-> <<>>]
NoNews == [ok |-> FALSE, items |-> <<>>]

VARIABLES pc, popular, text, ticker, indicators, resp, data, close_col,
          attempted, info, news, page, exc

vars == <<pc, popular, text, ticker, indicators, resp, data, close_col,
          attempted, info, news, page, exc>>

(* --------------------------- python objects ----------------------------- *)
\* The attributes the script or `ta` calls on close_col, by the kind of object:
\* a numpy array has none of the pandas Series methods.
Methods(kind) ==
  IF kind = "Series" THEN {"isnull", "rolling", "ewm", "diff"}
  ELSE IF kind = "ndarray" THEN {"flatten", "all"}
  ELSE {}

\* pd.to_numeric(..., errors='coerce') on one cell.
ToNumericCell(c) ==
  IF c.t = "num" THEN c
  ELSE IF c.t = "numstr" THEN Num(c.v)
  ELSE NaN

\* pd.to_numeric on the array data['Close'].values.flatten(): for an array
\* argument the result is an array again, not a Series.
ToNumeric(cells) ==
  [kind |-> "ndarray", vals |-> [i \in 1..Len(cells) |-> ToNumericCell(cells[i])]]

\* isnull().all(): no entry is a number (true of an empty column).
AllNull(vals) == \A i \in 1..Len(vals) : vals[i].t # "num"

\* An uncaught exception ends the render; Streamlit shows it on the page.
Raise(shown, name) ==
  /\ pc' = "crashed"
  /\ exc' = name
  /\ page' = Append(shown, El("exception", name, ""))

\* st.stop() after an element.
Stop(shown) ==
  /\ pc' = "stopped"
  /\ page' = shown
  /\ exc' = exc

(* ------------------------- lines 23-71: Spec ---------------------------- *)
Init ==
  /\ pc = "sidebar"
  /\ popular \in Popular
  /\ text \in TextInputs
  /\ ticker = ""
  /\ indicators \in SUBSET IndicatorNames
  /\ resp \in Responses
  /\ data = EmptyFrame
  /\ close_col = Unset
  /\ attempted = {}
  /\ info = NoInfo
  /\ news = NoNews
  /\ page = <<>>
  /\ exc = "none"

\* lines 23-33: the ticker is the popular choice, else the upper-cased text.
ReadSidebar ==
  /\ pc = "sidebar"
  /\ ticker' = IF popular # "None" THEN popular ELSE Upper(text)
  /\ pc' = "guard"
  /\ UNCHANGED <<popular, text, indicators, resp, data, close_col, attempted,
                 info, news, page, exc>>

\* lines 36-38
TickerGuard ==
  /\ pc = "guard"
  /\ IF ticker = ""
     THEN Stop(Append(page, El("warning", "no_ticker", "")))
     ELSE pc' = "load" /\ UNCHANGED <<page, exc>>
  /\ UNCHANGED <<popular, text, ticker, indicators, resp, data, close_col,
                 attempted, info, news>>

\* lines 52-58: load_data
LoadData ==
  /\ pc = "load"
  /\ IF ~resp.ok
     THEN Raise(page, "DownloadError") /\ UNCHANGED data
     ELSE /\ data' = [EmptyFrame EXCEPT !.cols = resp.cols, !.close = resp.close]
          /\ pc' = "closecheck"
          /\ UNCHANGED <<page, exc>>
  /\ UNCHANGED <<popular, text, ticker, indicators, resp, close_col, attempted,
                 info, news>>

CloseCheckNoStop ==
  /\ pc = "closecheck"
  /\ pc' = "coerce"
  /\ page' = IF "Close" \notin data.cols
             THEN Append(page, El("error", "close_missing", ""))
             ELSE page
  /\ UNCHANGED <<popular, text, ticker, indicators, resp, data, close_col,
                 attempted, info, news, exc>>

\* lines 60-62
CloseCheck ==
  /\ pc = "closecheck"
  /\ IF "Close" \notin data.cols
     THEN Stop(Append(page, El("error", "close_missing", "")))
     ELSE pc' = "coerce" /\ UNCHANGED <<page, exc>>
  /\ UNCHANGED <<popular, text, ticker, indicators, resp, data, close_col,
                 attempted, info, news>>

\* line 65
CoerceClose ==
  /\ pc = "coerce"
  /\ IF "Close" \notin data.cols
     THEN Raise(page, "KeyError") /\ UNCHANGED close_col
     ELSE /\ close_col' = ToNumeric(data.close)
          /\ pc' = "validate"
          /\ UNCHANGED <<page, exc>>
  /\ UNCHANGED <<popular, text, ticker, indicators, resp, data, attempted,
                 info, news>>

\* lines 69-71: close_col.isnull().all()
ValidateClose ==
  /\ pc = "validate"
  /\ IF "isnull" \notin Methods(close_col.kind)
     THEN Raise(page, "AttributeError")
     ELSE IF AllNull(close_col.vals)
     THEN Stop(Append(page, El("error", "close_invalid", "")))
     ELSE pc' = "indicators" /\ UNCHANGED <<page, exc>>
  /\ UNCHANGED <<popular, text, ticker, indicators, resp, data, close_col,
                 attempted, info, news>>

Next ==
  \/ ReadSidebar
  \/ TickerGuard
  \/ LoadData
  \/ CloseCheck
  \/ CoerceClose
  \/ ValidateClose

Spec == Init /\ [][Next]_vars

(* ------------------- lines 73-90: technical indicators ------------------- *)
\* What ta.momentum.rsi returns for a Series of n closes: NaN until the window
\* has filled, then values between 0 and 100.
RsiNums == {Num(29), Num(30), Num(50), Num(70), Num(71)}
MacdNums == {Num(-1), Num(1)}

WarmUp(n, window) == IF n < window - 1 THEN n ELSE window - 1

TaSeries(nums, n, window) ==
  {[i \in 1..n |-> IF i <= WarmUp(n, window) THEN NaN ELSE tl[i]] :
     tl \in [1..n -> nums]}

NoneCol(n) == [i \in 1..n |-> None]

\* ta.trend.macd(close=...) is the function of `ta`, which returns the MACD
\* line itself: a Series when close is one, an AttributeError otherwise.
MacdObjectKind(kind) == IF "ewm" \in Methods(kind) THEN "Series" ELSE "raise"

\* lines 85-87 raise: the call itself, or .macd() / .macd_signal() on its result.
MacdRaises(kind) ==
  \/ MacdObjectKind(kind) = "raise"
  \/ "macd" \notin Methods(MacdObjectKind(kind))

Indicators ==
  /\ pc = "indicators"
  /\ LET k == close_col.kind
         n == Len(close_col.vals)
         sma == "SMA (20)" \in indicators
         ema == "EMA (20)" \in indicators
         rsi == "RSI" \in indicators
         macd == "MACD" \in indicators
         tried1 == IF sma THEN {"SMA20"} ELSE {}
         tried2 == tried1 \cup (IF ema THEN {"EMA20"} ELSE {})
         tried3 == tried2 \cup (IF rsi THEN {"RSI"} ELSE {})
         tried4 == tried3 \cup (IF macd THEN {"MACD"} ELSE {})
     IN IF sma /\ "rolling" \notin Methods(k)
        THEN Raise(page, "AttributeError") /\ attempted' = tried1
             /\ UNCHANGED data
        ELSE IF ema /\ "ewm" \notin Methods(k)
        THEN Raise(page, "AttributeError") /\ attempted' = tried2
             /\ data' = [data EXCEPT !.cols = @ \cup tried1]
        ELSE IF rsi /\ "diff" \notin Methods(k)
        THEN Raise(page, "AttributeError") /\ attempted' = tried3
             /\ data' = [data EXCEPT !.cols = @ \cup tried2]
        ELSE
          \E r \in (IF rsi THEN TaSeries(RsiNums, n, RsiWindow) ELSE {<<>>}),
             m \in (IF macd /\ ~MacdRaises(k)
                    THEN TaSeries(MacdNums, n, 26) ELSE {<<>>}),
             s \in (IF macd /\ ~MacdRaises(k)
                    THEN TaSeries(MacdNums, n, 34) ELSE {<<>>}) :
            /\ attempted' = tried4
            /\ data' = [data EXCEPT
                 !.cols = @ \cup tried3
                            \cup (IF macd THEN {"MACD", "Signal_Line"} ELSE {}),
                 !.RSI = r,
                 !.MACD = IF macd /\ MacdRaises(k) THEN NoneCol(n) ELSE m,
                 !.Signal = IF macd /\ MacdRaises(k) THEN NoneCol(n) ELSE s]
            /\ page' = IF macd /\ MacdRaises(k)
                       THEN Append(page, El("warning", "macd_error", ""))
                       ELSE page
            /\ pc' = "chart"
            /\ exc' = exc
  /\ UNCHANGED <<popular, text, ticker, indicators, resp, close_col, info, news>>

(* ----------------------- lines 92-138: charts, metrics ------------------- *)
\* lines 92-112
Chart ==
  /\ pc = "chart"
  /\ LET shown == Append(page, El("subheader", "chart", ticker))
         sma == IF "SMA (20)" \in indicators /\ "SMA20" \in data.cols
                THEN <<El("trace", "SMA 20", "")>> ELSE <<>>
         ema == IF "EMA (20)" \in indicators /\ "EMA20" \in data.cols
                THEN <<El("trace", "EMA 20", "")>> ELSE <<>>
     IN IF ~(FullCols \subseteq data.cols)
        THEN Raise(shown, "KeyError")
        ELSE /\ page' = shown \o sma \o ema \o <<El("chart", "price", "")>>
             /\ pc' = "rsichart"
             /\ exc' = exc
  /\ UNCHANGED <<popular, text, ticker, indicators, resp, data, close_col,
                 attempted, info, news>>

\* lines 114-122
RsiChart ==
  /\ pc = "rsichart"
  /\ page' = IF "RSI" \in indicators /\ "RSI" \in data.cols
             THEN page \o <<El("subheader", "rsi", ""), El("chart", "rsi", "")>>
             ELSE page
  /\ pc' = "macdchart"
  /\ UNCHANGED <<popular, text, ticker, indicators, resp, data, close_col,
                 attempted, info, news, exc>>

\* data.get('MACD') is not None: get returns the column when the frame has
\* one, whatever its cells hold, and None only when it has none.
HasMacdColumn(d) == "MACD" \in d.cols

\* lines 124-131
MacdChart ==
  /\ pc = "macdchart"
  /\ page' = IF "MACD" \in indicators /\ HasMacdColumn(data)
             THEN page \o <<El("subheader", "macd", ""), El("chart", "macd", "")>>
             ELSE page
  /\ pc' = "metrics"
  /\ UNCHANGED <<popular, text, ticker, indicators, resp, data, close_col,
                 attempted, info, news, exc>>

Pad2(n) == IF n < 10 THEN "0" \o ToString(n) ELSE ToString(n)
Pad3(n) == IF n < 10 THEN "00" \o ToString(n)
           ELSE IF n < 100 THEN "0" \o ToString(n) ELSE ToString(n)

\* f"${float(x):.2f}" for a cell holding whole dollars.
Money2(c) == IF c.t = "nan" THEN "$nan" ELSE "$" \o ToString(c.v) \o ".00"

\* lines 133-138
Metrics ==
  /\ pc = "metrics"
  /\ LET shown == Append(page, El("subheader", "metrics", ""))
     IN IF Last(data.close).t = "junk"
        THEN Raise(shown, "ValueError")
        ELSE /\ page' = shown \o
                  <<El("metric", "Latest Close", Money2(Last(data.close))),
                    El("metric", "52W High", ""),
                    El("metric", "52W Low", "")>>
             /\ pc' = "fundamentals"
             /\ exc' = exc
  /\ UNCHANGED <<popular, text, ticker, indicators, resp, data, close_col,
                 attempted, info, news>>

(* ---------------------- lines 140-154: fundamentals ---------------------- *)
\* dict.get(key, default)
InfoGet(m, key, default) == IF key \in DOMAIN m THEN m[key] ELSE default

\* str() of a float kept in hundredths: 2850 is "28.5", 2800 is "28.0".
PyStrFloat(h) ==
  ToString(h \div 100) \o "." \o
    (IF (h % 100) % 10 = 0 THEN ToString((h % 100) \div 10) ELSE Pad2(h % 100))

\* f"{info.get(key, 'N/A')}"
FormatRatio(m, key) ==
  IF key \notin DOMAIN m THEN "N/A"
  ELSE IF m[key].t = "none" THEN "None"
  ELSE PyStrFloat(m[key].v)

\* Python truth of None and of a number.
Truthy(x) == x.t # "none" /\ ~(x.t = "num" /\ x.v = 0)

\* f"{roe * 100:.2f}%" for roe kept in ten-thousandths.
Pct2(v) ==
  LET a == IF v < 0 THEN -v ELSE v
  IN (IF v < 0 THEN "-" ELSE "") \o ToString(a \div 100) \o "." \o Pad2(a % 100)
       \o "%"

FormatRoeNotNone(roe) == IF roe.t # "none" THEN Pct2(roe.v) ELSE "N/A"

\* line 149
FormatRoe(roe) == IF Truthy(roe) THEN Pct2(roe.v) ELSE "N/A"

RECURSIVE Commas(_)
\* f"{n:,.0f}"
Commas(n) ==
  IF n < 1000 THEN ToString(n)
  ELSE Commas(n \div 1000) \o "," \o Pad3(n % 1000)

\* line 154: f"${info.get('marketCap', 0):,.0f}"; None has no such format.
CapRaises(m) == InfoGet(m, "marketCap", Num(0)).t = "none"
FormatCap(m) == "$" \o Commas(InfoGet(m, "marketCap", Num(0)).v)

\* lines 146-153
FirstFive(m) ==
  <<El("metric", "P/E Ratio", FormatRatio(m, "trailingPE")),
    El("metric", "EPS (TTM)", FormatRatio(m, "trailingEps")),
    El("metric", "ROE", FormatRoe(InfoGet(m, "returnOnEquity", None))),
    El("metric", "Debt/Equity", FormatRatio(m, "debtToEquity")),
    El("metric", "P/B Ratio", FormatRatio(m, "priceToBook"))>>

Fundamentals ==
  /\ pc = "fundamentals"
  /\ LET shown == Append(page, El("subheader", "fundamentals", ""))
     IN IF ~info.ok
        THEN Raise(shown, "ProviderError")
        ELSE IF CapRaises(info.m)
        THEN Raise(shown \o FirstFive(info.m), "TypeError")
        ELSE /\ page' = shown \o FirstFive(info.m)
                          \o <<El("metric", "Market Cap", FormatCap(info.m))>>
             /\ pc' = "insights"
             /\ exc' = exc
  /\ UNCHANGED <<popular, text, ticker, indicators, resp, data, close_col,
                 attempted, info, news>>

(* ------------------------ lines 156-175: insights ------------------------ *)
\* a > b and a < b on cells: every comparison with NaN is false.
PyGt(a, b) == a.t = "num" /\ b.t = "num" /\ a.v > b.v
PyLt(a, b) == a.t = "num" /\ b.t = "num" /\ a.v < b.v
\* Ordering None raises TypeError.
Unorderable(a, b) == a.t = "none" \/ b.t = "none"

RsiLabelInclusive(latest) ==
  IF latest.t = "num" /\ latest.v >= Overbought THEN "overbought"
  ELSE IF latest.t = "num" /\ latest.v <= Oversold THEN "oversold"
  ELSE "neutral"

\* lines 160-165
RsiLabel(latest) ==
  IF PyGt(latest, Num(Overbought)) THEN "overbought"
  ELSE IF PyLt(latest, Num(Oversold)) THEN "oversold"
  ELSE "neutral"

RsiInsight(latest) ==
  LET l == RsiLabel(latest)
  IN El(IF l = "overbought" THEN "warning"
        ELSE IF l = "oversold" THEN "success" ELSE "info", "rsi_insight", l)

MacdLabelInclusive(m, s) ==
  IF m.t = "num" /\ s.t = "num" /\ m.v >= s.v THEN "bullish"
  ELSE IF PyLt(m, s) THEN "bearish"
  ELSE "neutral"

\* lines 170-175
MacdLabel(m, s) ==
  IF PyGt(m, s) THEN "bullish"
  ELSE IF PyLt(m, s) THEN "bearish"
  ELSE "neutral"

MacdInsight(m, s) ==
  LET l == MacdLabel(m, s)
  IN El(IF l = "bullish" THEN "success"
        ELSE IF l = "bearish" THEN "warning" ELSE "info", "macd_insight", l)

Insights ==
  /\ pc = "insights"
  /\ LET shown0 == Append(page, El("subheader", "insights", ""))
         shown1 == IF "RSI" \in indicators /\ "RSI" \in data.cols
                   THEN Append(shown0, RsiInsight(Last(data.RSI)))
                   ELSE shown0
     IN IF "MACD" \in indicators /\ HasMacdColumn(data)
        THEN IF Unorderable(Last(data.MACD), Last(data.Signal))
             THEN Raise(shown1, "TypeError")
             ELSE /\ page' = Append(shown1,
                               MacdInsight(Last(data.MACD), Last(data.Signal)))
                  /\ pc' = "news"
                  /\ exc' = exc
        ELSE /\ page' = shown1
             /\ pc' = "news"
             /\ exc' = exc
  /\ UNCHANGED <<popular, text, ticker, indicators, resp, data, close_col,
                 attempted, info, news>>

(* -------------------- lines 177-198: news, raw data ---------------------- *)
TitleOf(i) == "headline " \o ToString(i)

NewsLabelInclusive(pol) ==
  IF pol >= PosPolarity THEN "positive"
  ELSE IF pol <= NegPolarity THEN "negative"
  ELSE "neutral"

\* lines 185-190
NewsLabel(pol) ==
  IF pol > PosPolarity THEN "positive"
  ELSE IF pol < NegPolarity THEN "negative"
  ELSE "neutral"

Headline(i, pol) ==
  LET l == NewsLabel(pol)
  IN IF l = "positive" THEN El("success", "headline", "up " \o TitleOf(i))
     ELSE IF l = "negative" THEN El("error", "headline", "down " \o TitleOf(i))
     ELSE El("info", "headline", "flat " \o TitleOf(i))

\* news[:5]
FirstItems(items) ==
  SubSeq(items, 1, IF Len(items) < NewsLimit THEN Len(items) ELSE NewsLimit)

RECURSIVE NewsLoop(_, _, _)
\* lines 182-190: item['title'] of an item without a title raises; what was
\* shown before stays shown.
NewsLoop(items, i, out) ==
  IF i > Len(items) THEN [out |-> out, failed |-> FALSE]
  ELSE IF ~items[i].hasTitle THEN [out |-> out, failed |-> TRUE]
  ELSE NewsLoop(items, i + 1, Append(out, Headline(i, items[i].pol)))

Notice == El("warning", "sentiment_unavailable", "")

\* lines 177-194
News ==
  /\ pc = "news"
  /\ LET shown == Append(page, El("subheader", "news", ""))
         r == NewsLoop(FirstItems(news.items), 1, <<>>)
     IN page' = IF ~news.ok THEN Append(shown, Notice)
                ELSE IF news.items = <<>>
                THEN Append(shown, El("write", "no_news", ""))
                ELSE shown \o r.out \o (IF r.failed THEN <<Notice>> ELSE <<>>)
  /\ pc' = "rawdata"
  /\ UNCHANGED <<popular, text, ticker, indicators, resp, data, close_col,
                 attempted, info, news, exc>>

\* lines 196-198
RawData ==
  /\ pc = "rawdata"
  /\ page' = Append(page, El("expander", "rawdata", ""))
  /\ pc' = "footer"
  /\ UNCHANGED <<popular, text, ticker, indicators, resp, data, close_col,
                 attempted, info, news, exc>>

\* lines 200-202
Footer ==
  /\ pc = "footer"
  /\ page' = Append(page, El("markdown", "footer", ""))
  /\ pc' = "done"
  /\ UNCHANGED <<popular, text, ticker, indicators, resp, data, close_col,
                 attempted, info, news, exc>>

(* --------------------------- the specifications -------------------------- *)
\* Close columns a passed validation leaves: at least one number after coercion.
ValidCloses ==
  {c \in SeqsOf(CloseCells, 1, MaxBars) : ~AllNull(ToNumeric(c).vals)}

Fields == {"trailingPE", "trailingEps", "returnOnEquity", "debtToEquity",
           "priceToBook", "marketCap"}

\* The values the provider may give a field it reports.
FieldVals(key) ==
  IF key = "returnOnEquity" THEN {None, Num(0), Num(1234), Num(-500)}
  ELSE IF key = "marketCap" THEN {None, Num(0), Num(1500), Num(2500000)}
  ELSE {Num(2850)}

Mappings ==
  UNION {{m \in [S -> UNION {FieldVals(k) : k \in S}] :
            \A k \in S : m[k] \in FieldVals(k)} : S \in SUBSET Fields}

\* What ticker_obj.info answers: it raises, or gives a mapping of any subset
\* of the fields.
InfoAll == {NoInfo} \cup {[ok |-> TRUE, m |-> m] : m \in Mappings}

FullInfo == [k \in Fields |->
               IF k = "returnOnEquity" THEN Num(1234)
               ELSE IF k = "marketCap" THEN Num(1500) ELSE Num(2850)]

InfoSmall ==
  {NoInfo,
   [ok |-> TRUE, m |-> <<>>],
   [ok |-> TRUE, m |-> FullInfo],
   [ok |-> TRUE, m |-> [FullInfo EXCEPT !["marketCap"] = None]]}

Item(pol) == [hasTitle |-> TRUE, pol |-> pol]
Untitled == [hasTitle |-> FALSE, pol |-> 0]
NewsItems == {Item(-50), Item(-10), Item(5), Item(10), Item(50), Untitled}

\* What ticker_obj.news answers: it raises, or gives a list of items.
NewsAll ==
  {NoNews} \cup {[ok |-> TRUE, items |-> s] : s \in SeqsOf(NewsItems, 0, MaxNews)}

NewsSmall ==
  {NoNews,
   [ok |-> TRUE, items |-> <<>>],
   [ok |-> TRUE, items |-> <<Item(50), Item(-50)>>],
   [ok |-> TRUE, items |-> <<Item(50), Untitled>>]}

\* Series whose absent entries all come first.
PrefixSeries(nums, n) ==
  {s \in [1..n -> nums \cup {NaN}] :
     \A i \in 1..(n - 1) : s[i + 1].t = "nan" => s[i].t = "nan"}

\* The state after the validation has passed, before line 73.  close_col is
\* the array line 65 builds, or the Series the comment on line 64 names.
InitSections ==
  /\ pc = "indicators"
  /\ popular = "None"
  /\ text = "IBM"
  /\ ticker = "IBM"
  /\ indicators \in SUBSET IndicatorNames
  /\ \E c \in ValidCloses :
       /\ resp = [ok |-> TRUE, cols |-> FullCols, close |-> c]
       /\ data = [EmptyFrame EXCEPT !.cols = FullCols, !.close = c]
       /\ \E k \in {"ndarray", "Series"} :
            close_col = [kind |-> k, vals |-> ToNumeric(c).vals]
  /\ attempted = {}
  /\ info \in InfoSmall
  /\ news \in NewsSmall
  /\ page = <<>>
  /\ exc = "none"

NextSections ==
  \/ Indicators
  \/ Chart
  \/ RsiChart
  \/ MacdChart
  \/ Metrics
  \/ Fundamentals
  \/ Insights
  \/ News
  \/ RawData
  \/ Footer

SpecSections == InitSections /\ [][NextSections]_vars

\* A frame of n rows with no indicator column.
PlainFrame(n) ==
  [EmptyFrame EXCEPT !.cols = FullCols, !.close = [i \in 1..n |-> Num(10)]]

\* The state before line 140, for every answer of ticker_obj.info.
InitFund ==
  /\ pc = "fundamentals"
  /\ popular = "None"
  /\ text = "IBM"
  /\ ticker = "IBM"
  /\ indicators = {}
  /\ resp = [ok |-> TRUE, cols |-> FullCols, close |-> <<Num(10)>>]
  /\ data = PlainFrame(1)
  /\ close_col = ToNumeric(<<Num(10)>>)
  /\ attempted = {}
  /\ info \in InfoAll
  /\ news = NoNews
  /\ page = <<>>
  /\ exc = "none"

NextFund == Fundamentals

SpecFund == InitFund /\ [][NextFund]_vars

\* The state before line 156, for every selection and every RSI, MACD and
\* Signal column the selection allows: the columns of a selected indicator
\* are in the frame, numeric with leading NaN, or None throughout for MACD.
InitInsight ==
  /\ pc = "insights"
  /\ popular = "None"
  /\ text = "IBM"
  /\ ticker = "IBM"
  /\ indicators \in SUBSET IndicatorNames
  /\ \E n \in 1..MaxBars :
       /\ resp = [ok |-> TRUE, cols |-> FullCols, close |-> PlainFrame(n).close]
       /\ close_col = [kind |-> "Series", vals |-> PlainFrame(n).close]
       /\ \E r \in (IF "RSI" \in indicators
                    THEN PrefixSeries(RsiNums, n) ELSE {<<>>}),
             ms \in (IF "MACD" \in indicators
                     THEN {<<NoneCol(n), NoneCol(n)>>}
                          \cup (PrefixSeries(MacdNums, n)
                                \X PrefixSeries(MacdNums, n))
                     ELSE {<<<<>>, <<>>>>}) :
            data = [PlainFrame(n) EXCEPT
                      !.cols = @ \cup (IF "SMA (20)" \in indicators
                                       THEN {"SMA20"} ELSE {})
                                 \cup (IF "EMA (20)" \in indicators
                                       THEN {"EMA20"} ELSE {})
                                 \cup (IF "RSI" \in indicators
                                       THEN {"RSI"} ELSE {})
                                 \cup (IF "MACD" \in indicators
                                       THEN {"MACD", "Signal_Line"} ELSE {}),
                      !.RSI = r,
                      !.MACD = ms[1],
                      !.Signal = ms[2]]
  /\ attempted = {}
  /\ info = NoInfo
  /\ news = NoNews
  /\ page = <<>>
  /\ exc = "none"

NextInsight == Insights

SpecInsight == InitInsight /\ [][NextInsight]_vars

\* The state before line 177, for every answer of ticker_obj.news.
InitNews ==
  /\ pc = "news"
  /\ popular = "None"
  /\ text = "IBM"
  /\ ticker = "IBM"
  /\ indicators = {}
  /\ resp = [ok |-> TRUE, cols |-> FullCols, close |-> <<Num(10)>>]
  /\ data = PlainFrame(1)
  /\ close_col = ToNumeric(<<Num(10)>>)
  /\ attempted = {}
  /\ info = NoInfo
  /\ news \in NewsAll
  /\ page = <<>>
  /\ exc = "none"

NextNews ==
  \/ News
  \/ RawData

SpecNews == InitNews /\ [][NextNews]_vars

(* -------------------------------- claims --------------------------------- *)
Ended == pc \in {"stopped", "crashed", "done"}
IndicatorCols == {"SMA20", "EMA20", "RSI", "MACD", "Signal_Line"}

\* C1: when the provider's frame has no Close column, the render shows the
\* missing-column error and halts there: no exception, no indicator computation
\* attempted, no indicator column, no later section, whatever the selection.
C1_MissingCloseHalts ==
  (ticker # "" /\ resp.ok /\ "Close" \notin resp.cols
     /\ pc \notin {"sidebar", "guard", "load", "closecheck"})
  => /\ pc = "stopped"
     /\ exc = "none"
     /\ page = <<El("error", "close_missing", "")>>
     /\ attempted = {}
     /\ close_col = Unset
     /\ data.cols \cap IndicatorCols = {}

C1_Witness ==
  /\ pc = "stopped"
  /\ data.cols = NoCloseCols
  /\ indicators = IndicatorNames
  /\ page = <<El("error", "close_missing", "")>>

\* C2: when the Close column is present and no closing price is a number after
\* coercion, the render ends stopped on the invalid-data error, with no
\* exception raised instead.
C2_InvalidCloseError ==
  (ticker # "" /\ resp.ok /\ "Close" \in resp.cols /\ Ended
     /\ \A i \in 1..Len(resp.close) : resp.close[i].t \in {"nan", "junk"})
  => /\ pc = "stopped"
     /\ exc = "none"
     /\ Last(page) = El("error", "close_invalid", "")

MetricText(name) == Named(page, name)[1].t

\* C5: for a mapping in which any subset of the six fields is absent (and a
\* market cap that is present is a number), the fundamentals section does not
\* raise and shows six metrics: an absent ratio as "N/A", an absent, null or
\* zero ROE as "N/A", an absent market cap as "$0".
C5_FundamentalsTolerant ==
  (pc # "fundamentals" /\ info.ok
     /\ ("marketCap" \in DOMAIN info.m => info.m["marketCap"].t = "num"))
  => /\ exc = "none"
     /\ pc = "insights"
     /\ Len(OfKind(page, "metric")) = 6
     /\ \A r \in {<<"trailingPE", "P/E Ratio">>, <<"trailingEps", "EPS (TTM)">>,
                  <<"debtToEquity", "Debt/Equity">>,
                  <<"priceToBook", "P/B Ratio">>} :
          r[1] \notin DOMAIN info.m => MetricText(r[2]) = "N/A"
     /\ ("returnOnEquity" \notin DOMAIN info.m) => MetricText("ROE") = "N/A"
     /\ ("returnOnEquity" \in DOMAIN info.m
           /\ info.m["returnOnEquity"] \in {None, Num(0)})
          => MetricText("ROE") = "N/A"
     /\ ("marketCap" \notin DOMAIN info.m) => MetricText("Market Cap") = "$0"

C5_Witness ==
  /\ pc = "insights"
  /\ info.ok
  /\ DOMAIN info.m = {}
  /\ MetricText("ROE") = "N/A"
  /\ MetricText("Market Cap") = "$0"

C7_RsiLabel ==
  (pc # "insights" /\ "RSI" \in indicators)
  => LET v == Last(data.RSI)
         ls == Named(page, "rsi_insight")
     IN /\ Len(ls) = 1
        /\ ls[1] = IF v.t = "num" /\ v.v > 70
                   THEN El("warning", "rsi_insight", "overbought")
                   ELSE IF v.t = "num" /\ v.v < 30
                   THEN El("success", "rsi_insight", "oversold")
                   ELSE El("info", "rsi_insight", "neutral")

C7_Witness ==
  /\ pc = "news"
  /\ "RSI" \in indicators
  /\ Last(data.RSI) = Num(70)
  /\ Named(page, "rsi_insight") = <<El("info", "rsi_insight", "neutral")>>

\* C8: when MACD is selected and the latest MACD and Signal values are numbers,
\* the insights section shows exactly one MACD label, fixed by the sign of
\* MACD - Signal: Bullish if positive, Bearish if negative, Neutral if zero.
C8_MacdLabel ==
  (pc # "insights" /\ "MACD" \in indicators
     /\ Last(data.MACD).t = "num" /\ Last(data.Signal).t = "num")
  => LET d == Last(data.MACD).v - Last(data.Signal).v
         ls == Named(page, "macd_insight")
     IN /\ exc = "none"
        /\ Len(ls) = 1
        /\ ls[1] = IF d > 0 THEN El("success", "macd_insight", "bullish")
                   ELSE IF d < 0 THEN El("warning", "macd_insight", "bearish")
                   ELSE El("info", "macd_insight", "neutral")

C8_Witness ==
  /\ pc = "news"
  /\ "MACD" \in indicators
  /\ Last(data.MACD) = Num(1)
  /\ Last(data.Signal) = Num(1)
  /\ Named(page, "macd_insight") = <<El("info", "macd_insight", "neutral")>>

\* C9: when every one of the first five items has a title, the headlines on
\* the page are those of the first five items and no more, in provider order,
\* each labelled once: Positive above 0.1, Negative below -0.1, else Neutral.
C9_HeadlineLabels ==
  (pc # "news" /\ news.ok
     /\ \A i \in 1..Len(news.items) : i <= 5 => news.items[i].hasTitle)
  => LET hs == Named(page, "headline")
         n == IF Len(news.items) < 5 THEN Len(news.items) ELSE 5
     IN /\ Len(hs) = n
        /\ \A i \in 1..n :
             hs[i] = IF news.items[i].pol > 10
                     THEN El("success", "headline", "up " \o TitleOf(i))
                     ELSE IF news.items[i].pol < -10
                     THEN El("error", "headline", "down " \o TitleOf(i))
                     ELSE El("info", "headline", "flat " \o TitleOf(i))

C9_Witness ==
  /\ pc = "rawdata"
  /\ news.ok
  /\ Len(news.items) = 6
  /\ \A i \in 1..6 : news.items[i].hasTitle
  /\ news.items[1].pol = 10
  /\ news.items[2].pol = -10
  /\ news.items[3].pol = 50
  /\ Len(Named(page, "headline")) = 5

====
